---- MODULE Spec2Model ----
(***************************************************************************)
(* A model of the key-value store (src/kv_store.go: Store, wal) and of the *)
(* Volcano operators (src/operator.go: KVScan, Filter, Limit, Project).    *)
(*                                                                         *)
(* Spec         the store, its write-ahead log, its reader-writer lock,    *)
(*              the wall clock and KVScan, driven by concurrent threads.   *)
(* SpecRestart  Spec, plus a new process calling New_Store on the WAL      *)
(*              file the old one wrote.                                    *)
(* SpecOps      Filter / Limit / Project over a child operator whose       *)
(*              answers are arbitrary (rows, end-of-stream and errors in   *)
(*              any order).                                                *)
(* SpecReads    the store with a writer thread and a thread calling Get,   *)
(*              Exists and Ttl.                                            *)
(* SpecMutators the store with two threads calling Set / Delete / Expire.  *)
(* SpecTree     the store with a writer thread and a thread running a      *)
(*              tree of Filter / Limit / Project over a KVScan.            *)
(* SpecProcess  Store.Process fed tokenized commands by one thread.        *)
(* SpecLive     two threads calling Set / Delete / Expire and a thread     *)
(*              running KVScans, with the fairness of the runtime.         *)
(* SpecFirst    the first iteration of the store (src/unnamed/part_001),   *)
(*              whose Get removes the entry it finds expired.              *)
(***************************************************************************)
EXTENDS Integers, Sequences, FiniteSets, TLC

\* ------------------------------------------------------------------ bounds
MaxTime == 3      \* the wall clock runs from StartTime to MaxTime
MaxTtl == 1       \* ttl arguments range over 0..MaxTtl
MaxWal == 2       \* mutating calls are accepted while the WAL has fewer lines
MaxRestarts == 1  \* times a new process calls New_Store on the same WAL file
MaxScript == 3    \* length of the scripted child's answer list (SpecOps)
MaxLimit == 2     \* Limit.Max ranges over 0..MaxLimit (SpecOps)
MaxCalls == 4     \* Next calls made on the operator under test (SpecOps)

\* ------------------------------------------------------- the small universe
Writers == {"w1"}      \* the threads that call Set / Delete / Expire
Readers == {"r1"}      \* the threads that call Get and run scans
Threads == Writers \cup Readers
Keys == {"a", "b"}
Values == {"x", "y"}
TTLs == 0..MaxTtl
NoThread == "none"

ZeroTime == 0     \* time.Time{} : IsZero() holds of it and of nothing else
StartTime == ZeroTime + 1   \* the first instant the clock shows

\* time.Duration.String() for whole seconds
DurationString(ttl) == <<ttl, "s">>

\* ------------------------------------------------------------------ state
VARIABLES
    data,       \* Store.data : key -> [data, expires_at]
    wal,        \* the lines of the WAL file, in file order
    now,        \* the wall clock read by time.Now()
    writer,     \* the thread inside Store.lock.Lock(), or NoThread
    readers,    \* the threads holding a shared lease on Store.lock
    wal_lock,   \* the thread holding wal.wal_lock, or NoThread
    pc,         \* where each thread is
    call,       \* the arguments of the call each thread is in
    ret,        \* what each thread's last finished call returned
    kv,         \* each thread's KVScan: keys, pos
    opened,     \* per thread: the map and the clock as KVScan.Open saw them
    emitted,    \* per thread: the keys KVScan.Next has returned since Open
    epoch,      \* how many times New_Store has been called again on this WAL file
    last_set,   \* per key: when and with which ttl > 0 Set last stored it, if
                \* no Set with ttl 0, Delete or Expire of the key came after
    applied,    \* the mutations the map has taken, in the order it took them
    op_tree,    \* SpecOps: the operator under test
    op_pc,      \* SpecOps: "new", "open" (Open has run) or "closed"
    script,     \* SpecOps: the answers its child will give, in order
    child_pos,  \* SpecOps: how many answers the child has given
    count,      \* SpecOps: Limit.count
    trace,      \* what each Next call on the operator (SpecOps) or on the
                \* operator tree (SpecTree) returned
    tree        \* SpecTree: the Filter / Limit / Project operators stacked over
                \* the reader's KVScan, outermost first, each with its state

storeVars == <<data, wal, now, writer, readers, wal_lock, pc, call, ret,
               kv, opened, emitted, epoch, last_set, applied>>
opsVars == <<op_tree, op_pc, script, child_pos, count, trace, tree>>
vars == <<data, wal, now, writer, readers, wal_lock, pc, call, ret,
          kv, opened, emitted, epoch, last_set, applied, op_tree, op_pc, script,
          child_pos, count, trace, tree>>

\* ------------------------------------------------------------- map helpers
EmptyMap == [k \in {} |-> [data |-> "", expires_at |-> ZeroTime]]
MapPut(m, k, v) == [x \in (DOMAIN m) \cup {k} |-> IF x = k THEN v ELSE m[x]]
MapDelete(m, k) == [x \in (DOMAIN m) \ {k} |-> m[x]]

\* time.Time.After
After(t, u) == t > u
IsZero(t) == t = ZeroTime

\* --------------------------------------------------------------- the calls
NoCall == [op |-> "none", key |-> "", value |-> "", ttl |-> 0]
NoRet == [err |-> "none", value |-> "", found |-> FALSE]
ErrNotFound == "the key does not exist"
ErrExpired == "the key has expired"
IOErrors == {"open", "sync"}

NoSet == [at |-> ZeroTime, ttl |-> 0]

NoScan == [keys |-> <<>>, pos |-> 0]
NoOpened == [data |-> EmptyMap, now |-> ZeroTime]

\* wal.log_op: the line it formats for the operation
LogEntry(op, key, value, ttl) ==
    CASE op = "SET" -> <<"SET", key, value>>
      [] op = "DELETE" -> <<"DELETE", key>>
      [] op = "EXPIRE" -> <<"EXPIRE", key, DurationString(ttl)>>

\* wal.log_op: a line of the file is its '|'-separated fields; log_op writes
\* the entry alone
WalLine(op, key, value, ttl) == <<LogEntry(op, key, value, ttl)>>

\* Store.Get's answer for key k on map m at instant t
GetResult(m, k, t) ==
    IF k \notin DOMAIN m THEN [value |-> "", found |-> FALSE]
    ELSE IF ~IsZero(m[k].expires_at) /\ After(t, m[k].expires_at)
         THEN [value |-> "", found |-> FALSE]
         ELSE [value |-> m[k].data, found |-> TRUE]

\* Store.Set: the expires_at it stores
SetExpiresAt(ttl, t) == IF ttl = 0 THEN ZeroTime ELSE t + ttl

\* a KVScan.Open that forgets the expiry test
ScanLiveIgnoresExpiry(m, t) == DOMAIN m

\* KVScan.Open: the keys it captures from map m at instant t
ScanLive(m, t) ==
    {k \in DOMAIN m : IsZero(m[k].expires_at) \/ After(m[k].expires_at, t)}

\* the orders in which a map iteration can visit a set of keys
Orderings(S) ==
    {s \in [1..Cardinality(S) -> S] : \A i, j \in 1..Cardinality(S) : i # j => s[i] # s[j]}

\* ------------------------------------------------------------------- Init
New_Store ==
    /\ data = EmptyMap
    /\ writer = NoThread
    /\ readers = {}
    /\ wal_lock = NoThread

NoOperator == [op |-> "none", Max |-> 0, Pred |-> "none", KeyOnly |-> FALSE]

InitOpsIdle ==
    /\ op_tree = NoOperator
    /\ op_pc = "new"
    /\ script = <<>>
    /\ child_pos = 0
    /\ count = 0
    /\ trace = <<>>
    /\ tree = <<>>

Init ==
    /\ New_Store
    /\ wal = <<>>
    /\ now = StartTime
    /\ pc = [t \in Threads |-> "idle"]
    /\ call = [t \in Threads |-> NoCall]
    /\ ret = [t \in Threads |-> NoRet]
    /\ kv = [t \in Threads |-> NoScan]
    /\ opened = [t \in Threads |-> NoOpened]
    /\ emitted = [t \in Threads |-> <<>>]
    /\ epoch = 0
    /\ last_set = [k \in Keys |-> NoSet]
    /\ applied = <<>>
    /\ InitOpsIdle

\* ------------------------------------------------------------ mutating calls
\* a thread enters Store.Set, Store.Delete or Store.Expire and reaches
\* s.lock.Lock().  Its arguments play no part until Lock lets it through, so
\* they are recorded there.
CallMutation(t) ==
    /\ pc[t] = "idle"
    /\ Len(wal) < MaxWal
    /\ pc' = [pc EXCEPT ![t] = "Lock"]
    /\ UNCHANGED <<data, wal, now, writer, readers, wal_lock, call, ret, kv, opened, emitted, epoch, last_set, applied>>
    /\ UNCHANGED opsVars

\* a Lock that lets a second writer in while the first holds the map lock
LockNoExclusion(t, c) ==
    /\ pc[t] = "Lock"
    /\ writer' = t
    /\ call' = [call EXCEPT ![t] = c]
    /\ pc' = [pc EXCEPT ![t] = "Drain"]
    /\ UNCHANGED <<data, wal, now, readers, wal_lock, ret, kv, opened, emitted, epoch, last_set, applied>>
    /\ UNCHANGED opsVars

\* sync.RWMutex.Lock, first half: writers exclude each other and from here on
\* no new reader is admitted
Lock(t, c) ==
    /\ pc[t] = "Lock"
    /\ writer = NoThread
    /\ writer' = t
    /\ call' = [call EXCEPT ![t] = c]
    /\ pc' = [pc EXCEPT ![t] = "Drain"]
    /\ UNCHANGED <<data, wal, now, readers, wal_lock, ret, kv, opened, emitted, epoch, last_set, applied>>
    /\ UNCHANGED opsVars

\* Store.Set(k, ttl, v), Store.Delete(k), Store.Expire(k, ttl) at Lock()
SetLock(t, k, ttl, v) == Lock(t, [op |-> "SET", key |-> k, value |-> v, ttl |-> ttl])
DeleteLock(t, k) == Lock(t, [op |-> "DELETE", key |-> k, value |-> "", ttl |-> 0])
ExpireLock(t, k, ttl) == Lock(t, [op |-> "EXPIRE", key |-> k, value |-> "", ttl |-> ttl])

\* sync.RWMutex.Lock, second half: the readers that hold a lease have left
LockAcquired(t) ==
    /\ pc[t] = "Drain"
    /\ readers = {}
    /\ pc' = [pc EXCEPT ![t] = "Locked"]
    /\ UNCHANGED <<data, wal, now, writer, readers, wal_lock, call, ret, kv, opened, emitted, epoch, last_set, applied>>
    /\ UNCHANGED opsVars

\* a Store.Set that keeps the expiry the key had when it is given ttl 0
SetApplyKeepsExpiry(m, k, ttl, v, t) ==
    MapPut(m, k, [data |-> v,
                  expires_at |-> IF ttl = 0 /\ k \in DOMAIN m THEN m[k].expires_at
                                 ELSE SetExpiresAt(ttl, t)])

\* what the three mutations do to the map once log_op has returned nil
SetApply(m, k, ttl, v, t) == MapPut(m, k, [data |-> v, expires_at |-> SetExpiresAt(ttl, t)])
DeleteApply(m, k) == MapDelete(m, k)
ExpireApply(m, k, ttl, t) == MapPut(m, k, [data |-> m[k].data, expires_at |-> t + ttl])
Applied(m, c, t) ==
    CASE c.op = "SET" -> SetApply(m, c.key, c.ttl, c.value, t)
      [] c.op = "DELETE" -> DeleteApply(m, c.key)
      [] c.op = "EXPIRE" -> ExpireApply(m, c.key, c.ttl, t)

\* what a finished call returned
Returned(e, v, f) == [err |-> e, value |-> v, found |-> f]

\* a Store.Expire that looks the key up only after logging
ExpireMissingLogsFirst(t) ==
    /\ pc[t] = "Locked"
    /\ call[t].op = "EXPIRE"
    /\ call[t].key \notin DOMAIN data
    /\ wal' = Append(wal, [line |-> <<<<"EXPIRE", call[t].key, DurationString(call[t].ttl)>>>>,
                           synced |-> TRUE])
    /\ ret' = [ret EXCEPT ![t] = Returned(ErrNotFound, "", FALSE)]
    /\ writer' = NoThread
    /\ pc' = [pc EXCEPT ![t] = "done"]
    /\ call' = [call EXCEPT ![t] = NoCall]
    /\ UNCHANGED <<data, now, readers, wal_lock, kv, opened, emitted, epoch, last_set, applied>>
    /\ UNCHANGED opsVars

\* Store.Expire on a key that is not in the map: the error, and the deferred
\* Unlock
ExpireMissing(t) ==
    /\ pc[t] = "Locked"
    /\ call[t].op = "EXPIRE"
    /\ call[t].key \notin DOMAIN data
    /\ ret' = [ret EXCEPT ![t] = Returned(ErrNotFound, "", FALSE)]
    /\ writer' = NoThread
    /\ pc' = [pc EXCEPT ![t] = "done"]
    /\ call' = [call EXCEPT ![t] = NoCall]
    /\ UNCHANGED <<data, wal, now, readers, wal_lock, kv, opened, emitted, epoch, last_set, applied>>
    /\ UNCHANGED opsVars

\* wal.log_op is entered: wal_lock.Lock()
LogOpEnter(t) ==
    /\ pc[t] = "Locked"
    /\ call[t].op = "EXPIRE" => call[t].key \in DOMAIN data
    /\ wal_lock = NoThread
    /\ wal_lock' = t
    /\ pc' = [pc EXCEPT ![t] = "log_op"]
    /\ UNCHANGED <<data, wal, now, writer, readers, call, ret, kv, opened, emitted, epoch, last_set, applied>>
    /\ UNCHANGED opsVars

\* a log_op that returns nil although nothing reached the file
LogOpOkNothingWritten(t) ==
    /\ pc[t] = "log_op"
    /\ wal_lock' = NoThread
    /\ pc' = [pc EXCEPT ![t] = "logged"]
    /\ UNCHANGED <<data, wal, now, writer, readers, call, ret, kv, opened, emitted, epoch, last_set, applied>>
    /\ UNCHANGED opsVars

\* a log_op that opens the file with O_TRUNC instead of O_APPEND
LogOpOkTruncates(t) ==
    /\ pc[t] = "log_op"
    /\ wal' = <<[line |-> WalLine(call[t].op, call[t].key, call[t].value, call[t].ttl),
                 synced |-> TRUE]>>
    /\ wal_lock' = NoThread
    /\ pc' = [pc EXCEPT ![t] = "logged"]
    /\ UNCHANGED <<data, now, writer, readers, call, ret, kv, opened, emitted, epoch, last_set, applied>>
    /\ UNCHANGED opsVars

\* wal.log_op runs to its return nil: the line is written, flushed and synced
LogOpOk(t) ==
    /\ pc[t] = "log_op"
    /\ wal' = Append(wal, [line |-> WalLine(call[t].op, call[t].key, call[t].value, call[t].ttl),
                           synced |-> TRUE])
    /\ wal_lock' = NoThread
    /\ pc' = [pc EXCEPT ![t] = "logged"]
    /\ UNCHANGED <<data, now, writer, readers, call, ret, kv, opened, emitted, epoch, last_set, applied>>
    /\ UNCHANGED opsVars

\* a Set / Delete / Expire that updates the map before it looks at log_op's
\* error
LogOpFailStoresAnyway(t, e) ==
    /\ pc[t] = "log_op"
    /\ wal' = IF e = "sync"
              THEN Append(wal, [line |-> WalLine(call[t].op, call[t].key, call[t].value, call[t].ttl),
                                synced |-> FALSE])
              ELSE wal
    /\ data' = Applied(data, call[t], now)
    /\ wal_lock' = NoThread
    /\ writer' = NoThread
    /\ ret' = [ret EXCEPT ![t] = Returned(e, "", FALSE)]
    /\ pc' = [pc EXCEPT ![t] = "done"]
    /\ call' = [call EXCEPT ![t] = NoCall]
    /\ UNCHANGED <<now, readers, kv, opened, emitted, epoch, last_set, applied>>
    /\ UNCHANGED opsVars

\* wal.log_op returns an error: OpenFile or Flush failed and nothing reached
\* the file, or Sync failed after the line was written.  The caller returns
\* the error (deferred Unlock) without touching the map.
LogOpFail(t, e) ==
    /\ pc[t] = "log_op"
    /\ wal' = IF e = "sync"
              THEN Append(wal, [line |-> WalLine(call[t].op, call[t].key, call[t].value, call[t].ttl),
                                synced |-> FALSE])
              ELSE wal
    /\ wal_lock' = NoThread
    /\ writer' = NoThread
    /\ ret' = [ret EXCEPT ![t] = Returned(e, "", FALSE)]
    /\ pc' = [pc EXCEPT ![t] = "done"]
    /\ call' = [call EXCEPT ![t] = NoCall]
    /\ UNCHANGED <<data, now, readers, kv, opened, emitted, epoch, last_set, applied>>
    /\ UNCHANGED opsVars

\* the rest of Store.Set / Store.Delete / Store.Expire: the map is updated,
\* the deferred Unlock runs, nil is returned
Apply(t) ==
    /\ pc[t] = "logged"
    /\ data' = Applied(data, call[t], now)
    /\ writer' = NoThread
    /\ ret' = [ret EXCEPT ![t] = Returned("nil", "", FALSE)]
    /\ pc' = [pc EXCEPT ![t] = "done"]
    /\ call' = [call EXCEPT ![t] = NoCall]
    /\ last_set' = [last_set EXCEPT ![call[t].key] =
                        IF call[t].op = "SET" /\ call[t].ttl > 0
                        THEN [at |-> now, ttl |-> call[t].ttl]
                        ELSE NoSet]
    /\ applied' = Append(applied, call[t])
    /\ UNCHANGED <<wal, now, readers, wal_lock, kv, opened, emitted, epoch>>
    /\ UNCHANGED opsVars

\* ------------------------------------------------------------------- reads
\* a thread enters Store.Get and reaches RLock()
CallGet(t, k) ==
    /\ pc[t] = "idle"
    /\ pc' = [pc EXCEPT ![t] = "RLock"]
    /\ call' = [call EXCEPT ![t] = [op |-> "GET", key |-> k, value |-> "", ttl |-> 0]]
    /\ UNCHANGED <<data, wal, now, writer, readers, wal_lock, ret, kv, opened, emitted, epoch, last_set, applied>>
    /\ UNCHANGED opsVars

\* a Store.Get that reads the map without waiting for RLock
GetWithoutRLock(t) ==
    /\ pc[t] = "RLock"
    /\ call[t].op = "GET"
    /\ LET r == GetResult(data, call[t].key, now)
       IN ret' = [ret EXCEPT ![t] = Returned("nil", r.value, r.found)]
    /\ pc' = [pc EXCEPT ![t] = "done"]
    /\ call' = [call EXCEPT ![t] = NoCall]
    /\ UNCHANGED <<data, wal, now, writer, readers, wal_lock, kv, opened, emitted, epoch, last_set, applied>>
    /\ UNCHANGED opsVars

\* a Store.Get that removes the entry it finds expired
GetEvictsExpired(t) ==
    /\ pc[t] = "RLock"
    /\ call[t].op = "GET"
    /\ writer = NoThread
    /\ LET r == GetResult(data, call[t].key, now)
       IN /\ ret' = [ret EXCEPT ![t] = Returned("nil", r.value, r.found)]
          /\ data' = IF call[t].key \in DOMAIN data /\ ~r.found
                     THEN MapDelete(data, call[t].key)
                     ELSE data
    /\ pc' = [pc EXCEPT ![t] = "done"]
    /\ call' = [call EXCEPT ![t] = NoCall]
    /\ UNCHANGED <<wal, now, writer, readers, wal_lock, kv, opened, emitted, epoch, last_set, applied>>
    /\ UNCHANGED opsVars

\* Store.Get: RLock is granted (no writer is in Lock), the entry is looked up
\* and tested against the clock, the deferred RUnlock runs
Get(t) ==
    /\ pc[t] = "RLock"
    /\ call[t].op = "GET"
    /\ writer = NoThread
    /\ LET r == GetResult(data, call[t].key, now)
       IN ret' = [ret EXCEPT ![t] = Returned("nil", r.value, r.found)]
    /\ pc' = [pc EXCEPT ![t] = "done"]
    /\ call' = [call EXCEPT ![t] = NoCall]
    /\ UNCHANGED <<data, wal, now, writer, readers, wal_lock, kv, opened, emitted, epoch, last_set, applied>>
    /\ UNCHANGED opsVars

\* a thread enters Store.Exists and reaches RLock()
CallExists(t, k) ==
    /\ pc[t] = "idle"
    /\ pc' = [pc EXCEPT ![t] = "RLock"]
    /\ call' = [call EXCEPT ![t] = [op |-> "EXISTS", key |-> k, value |-> "", ttl |-> 0]]
    /\ UNCHANGED <<data, wal, now, writer, readers, wal_lock, ret, kv, opened, emitted, epoch, last_set, applied>>
    /\ UNCHANGED opsVars

\* Store.Exists: under RLock, whether the map has the key; expires_at is not
\* looked at
Exists(t) ==
    /\ pc[t] = "RLock"
    /\ call[t].op = "EXISTS"
    /\ writer = NoThread
    /\ ret' = [ret EXCEPT ![t] = Returned("nil", "", call[t].key \in DOMAIN data)]
    /\ pc' = [pc EXCEPT ![t] = "done"]
    /\ call' = [call EXCEPT ![t] = NoCall]
    /\ UNCHANGED <<data, wal, now, writer, readers, wal_lock, kv, opened, emitted, epoch, last_set, applied>>
    /\ UNCHANGED opsVars

\* format_time_into_readable_string
format_time_into_readable_string(t) == IF IsZero(t) THEN <<"No Expiry">> ELSE <<"RFC1123", t>>

\* Store.Ttl's answer for key k on map m at instant t: current time, remaining
\* ttl, expiry time, error
TtlResult(m, k, t) ==
    LET empty_time == format_time_into_readable_string(ZeroTime)
    IN IF k \notin DOMAIN m
       THEN [now |-> empty_time, remaining |-> 0, expiry |-> empty_time, err |-> ErrNotFound]
       ELSE IF ~IsZero(m[k].expires_at) /\ After(t, m[k].expires_at)
            THEN [now |-> empty_time, remaining |-> 0, expiry |-> empty_time, err |-> ErrExpired]
            ELSE [now |-> format_time_into_readable_string(t),
                  remaining |-> IF IsZero(m[k].expires_at) THEN 0 ELSE m[k].expires_at - t,
                  expiry |-> format_time_into_readable_string(m[k].expires_at),
                  err |-> "nil"]

\* a thread enters Store.Ttl and reaches RLock()
CallTtl(t, k) ==
    /\ pc[t] = "idle"
    /\ pc' = [pc EXCEPT ![t] = "RLock"]
    /\ call' = [call EXCEPT ![t] = [op |-> "TTL", key |-> k, value |-> "", ttl |-> 0]]
    /\ UNCHANGED <<data, wal, now, writer, readers, wal_lock, ret, kv, opened, emitted, epoch, last_set, applied>>
    /\ UNCHANGED opsVars

\* Store.Ttl under RLock
Ttl(t) ==
    /\ pc[t] = "RLock"
    /\ call[t].op = "TTL"
    /\ writer = NoThread
    /\ LET r == TtlResult(data, call[t].key, now)
       IN ret' = [ret EXCEPT ![t] = [err |-> r.err, value |-> "", found |-> r.err = "nil",
                                     now |-> r.now, remaining |-> r.remaining, expiry |-> r.expiry]]
    /\ pc' = [pc EXCEPT ![t] = "done"]
    /\ call' = [call EXCEPT ![t] = NoCall]
    /\ UNCHANGED <<data, wal, now, writer, readers, wal_lock, kv, opened, emitted, epoch, last_set, applied>>
    /\ UNCHANGED opsVars

\* ------------------------------------------------------------------ KVScan
\* a thread calls KVScan.Open and reaches RLock()
CallOpen(t) ==
    /\ pc[t] = "idle"
    /\ pc' = [pc EXCEPT ![t] = "RLock"]
    /\ call' = [call EXCEPT ![t] = [op |-> "OPEN", key |-> "", value |-> "", ttl |-> 0]]
    /\ UNCHANGED <<data, wal, now, writer, readers, wal_lock, ret, kv, opened, emitted, epoch, last_set, applied>>
    /\ UNCHANGED opsVars

\* a KVScan.Open that gives its lease back before it returns
KVScanOpenNoLease(t) ==
    /\ pc[t] = "RLock"
    /\ call[t].op = "OPEN"
    /\ writer = NoThread
    /\ \E order \in Orderings(ScanLive(data, now)) :
          kv' = [kv EXCEPT ![t] = [keys |-> order, pos |-> 0]]
    /\ opened' = [opened EXCEPT ![t] = [data |-> data, now |-> now]]
    /\ emitted' = [emitted EXCEPT ![t] = <<>>]
    /\ pc' = [pc EXCEPT ![t] = "scan"]
    /\ call' = [call EXCEPT ![t] = NoCall]
    /\ UNCHANGED <<data, wal, now, writer, readers, wal_lock, ret, epoch, last_set, applied>>
    /\ UNCHANGED opsVars

\* a KVScan.Open whose RLock is granted while a writer waits in Lock for the
\* readers to leave
KVScanOpenOverWriter(t) ==
    /\ pc[t] = "RLock"
    /\ call[t].op = "OPEN"
    /\ \A w \in DOMAIN pc : pc[w] \notin {"Locked", "log_op", "logged"}
    /\ readers' = readers \cup {t}
    /\ \E order \in Orderings(ScanLive(data, now)) :
          kv' = [kv EXCEPT ![t] = [keys |-> order, pos |-> 0]]
    /\ opened' = [opened EXCEPT ![t] = [data |-> data, now |-> now]]
    /\ emitted' = [emitted EXCEPT ![t] = <<>>]
    /\ pc' = [pc EXCEPT ![t] = "scan"]
    /\ call' = [call EXCEPT ![t] = NoCall]
    /\ UNCHANGED <<data, wal, now, writer, wal_lock, ret, epoch, last_set, applied>>
    /\ UNCHANGED opsVars

\* KVScan.Open: RLock is granted and kept; the keys that are not expired are
\* collected in the order the map iteration yields them; pos = 0
KVScanOpen(t) ==
    /\ pc[t] = "RLock"
    /\ call[t].op = "OPEN"
    /\ writer = NoThread
    /\ readers' = readers \cup {t}
    /\ \E order \in Orderings(ScanLive(data, now)) :
          kv' = [kv EXCEPT ![t] = [keys |-> order, pos |-> 0]]
    /\ opened' = [opened EXCEPT ![t] = [data |-> data, now |-> now]]
    /\ emitted' = [emitted EXCEPT ![t] = <<>>]
    /\ pc' = [pc EXCEPT ![t] = "scan"]
    /\ call' = [call EXCEPT ![t] = NoCall]
    /\ UNCHANGED <<data, wal, now, writer, wal_lock, ret, epoch, last_set, applied>>
    /\ UNCHANGED opsVars

\* the value a Go map lookup yields: the entry, or the zero value
Lookup(m, k) == IF k \in DOMAIN m THEN m[k] ELSE [data |-> "", expires_at |-> ZeroTime]

\* what Next returns with a row: &Row{Key: k, Value: v}, nil
ReturnedRow(k, v) ==
    [err |-> "nil", value |-> v.data, found |-> TRUE, key |-> k, expires_at |-> v.expires_at]

\* a KVScan.Next that passes over the keys that have expired since Open
KVScanNextSkipsExpired(t) ==
    /\ pc[t] = "scan"
    /\ IF kv[t].pos >= Len(kv[t].keys)
       THEN /\ ret' = [ret EXCEPT ![t] = Returned("nil", "", FALSE)]
            /\ UNCHANGED <<kv, emitted>>
       ELSE LET k == kv[t].keys[kv[t].pos + 1]
            IN /\ ret' = [ret EXCEPT ![t] =
                            IF ~IsZero(Lookup(data, k).expires_at) /\ ~After(Lookup(data, k).expires_at, now)
                            THEN Returned("nil", "", FALSE)
                            ELSE ReturnedRow(k, Lookup(data, k))]
               /\ kv' = [kv EXCEPT ![t].pos = @ + 1]
               /\ emitted' = [emitted EXCEPT ![t] = Append(@, k)]
    /\ UNCHANGED <<data, wal, now, writer, readers, wal_lock, pc, call, opened, epoch, last_set, applied>>
    /\ UNCHANGED opsVars

\* KVScan.Next: the row at pos, with the value the map holds now, or nil at
\* the end of the captured keys
KVScanNext(t) ==
    /\ pc[t] = "scan"
    /\ IF kv[t].pos >= Len(kv[t].keys)
       THEN /\ ret' = [ret EXCEPT ![t] = Returned("nil", "", FALSE)]
            /\ UNCHANGED <<kv, emitted>>
       ELSE LET k == kv[t].keys[kv[t].pos + 1]
            IN /\ ret' = [ret EXCEPT ![t] = ReturnedRow(k, Lookup(data, k))]
               /\ kv' = [kv EXCEPT ![t].pos = @ + 1]
               /\ emitted' = [emitted EXCEPT ![t] = Append(@, k)]
    /\ UNCHANGED <<data, wal, now, writer, readers, wal_lock, pc, call, opened, epoch, last_set, applied>>
    /\ UNCHANGED opsVars

\* KVScan.Close: RUnlock
KVScanClose(t) ==
    /\ pc[t] = "scan"
    /\ readers' = readers \ {t}
    /\ pc' = [pc EXCEPT ![t] = "idle"]
    /\ kv' = [kv EXCEPT ![t] = NoScan]
    /\ opened' = [opened EXCEPT ![t] = NoOpened]
    /\ emitted' = [emitted EXCEPT ![t] = <<>>]
    /\ ret' = [ret EXCEPT ![t] = NoRet]
    /\ UNCHANGED <<data, wal, now, writer, wal_lock, call, epoch, last_set, applied>>
    /\ UNCHANGED opsVars

\* the caller has looked at what its call returned
Return(t) ==
    /\ pc[t] = "done"
    /\ pc' = [pc EXCEPT ![t] = "idle"]
    /\ ret' = [ret EXCEPT ![t] = NoRet]
    /\ UNCHANGED <<data, wal, now, writer, readers, wal_lock, call, kv, opened, emitted, epoch, last_set, applied>>
    /\ UNCHANGED opsVars

\* ------------------------------------------------------------------- clock
Tick ==
    /\ now < MaxTime
    /\ now' = now + 1
    /\ UNCHANGED <<data, wal, writer, readers, wal_lock, pc, call, ret, kv, opened, emitted, epoch, last_set, applied>>
    /\ UNCHANGED opsVars

\* the process ends and a new one calls New_Store on the WAL file the old
\* one wrote: an empty map, fresh locks; the file is neither read nor changed
NewStoreAgain ==
    /\ epoch < MaxRestarts
    /\ epoch' = epoch + 1
    /\ data' = EmptyMap
    /\ writer' = NoThread
    /\ readers' = {}
    /\ wal_lock' = NoThread
    /\ pc' = [t \in Threads |-> "idle"]
    /\ call' = [t \in Threads |-> NoCall]
    /\ ret' = [t \in Threads |-> NoRet]
    /\ kv' = [t \in Threads |-> NoScan]
    /\ opened' = [t \in Threads |-> NoOpened]
    /\ emitted' = [t \in Threads |-> <<>>]
    /\ last_set' = [k \in Keys |-> NoSet]
    /\ applied' = <<>>
    /\ UNCHANGED <<wal, now>>
    /\ UNCHANGED opsVars

Next ==
    \/ \E t \in Writers : CallMutation(t)
    \/ \E t \in Writers, k \in Keys, ttl \in TTLs, v \in Values : SetLock(t, k, ttl, v)
    \/ \E t \in Writers, k \in Keys : DeleteLock(t, k)
    \/ \E t \in Writers, k \in Keys, ttl \in TTLs : ExpireLock(t, k, ttl)
    \/ \E t \in Writers : LockAcquired(t)
    \/ \E t \in Writers : ExpireMissing(t)
    \/ \E t \in Writers : LogOpEnter(t)
    \/ \E t \in Writers : LogOpOk(t)
    \/ \E t \in Writers, e \in IOErrors : LogOpFail(t, e)
    \/ \E t \in Writers : Apply(t)
    \/ \E t \in Readers, k \in Keys : CallGet(t, k)
    \/ \E t \in Readers : Get(t)
    \/ \E t \in Readers : CallOpen(t)
    \/ \E t \in Readers : KVScanOpen(t)
    \/ \E t \in Readers : KVScanNext(t)
    \/ \E t \in Readers : KVScanClose(t)
    \/ \E t \in Threads : Return(t)
    \/ Tick

Spec == Init /\ [][Next]_vars

\* ---------------------------------------------------------------- operators
\* A Row is a key and a value payload; nil is the row no Next returns with a
\* key (key names are not empty).
RowSet == [Key : Keys, Value : Values]
NilRow == [Key |-> "", Value |-> ""]
Errs == {"nil", "child failed"}

\* what a Next call returns: (*Row, error)
Answers == [row : RowSet \cup {NilRow}, err : Errs]
EndOfStream == [row |-> NilRow, err |-> "nil"]

\* the child operator under a Filter, Limit or Project: any Operator, so its
\* Next gives any answers in any order; past the script it reports
\* end-of-stream
Scripts == UNION {[1..n -> Answers] : n \in 0..MaxScript}
ChildNext(s, pos) == IF pos < Len(s) THEN s[pos + 1] ELSE EndOfStream

\* Filter.Pred: the planner's two predicates, key LIKE a and value CONTAINS x
Preds == {"key LIKE a", "value CONTAINS x"}
Pred(p, row) ==
    CASE p = "key LIKE a" -> row.Key = "a"
      [] p = "value CONTAINS x" -> row.Value = "x"

Operators ==
    {[op |-> "Filter", Max |-> 0, Pred |-> p, KeyOnly |-> FALSE] : p \in Preds}
    \cup {[op |-> "Limit", Max |-> n, Pred |-> "none", KeyOnly |-> FALSE] : n \in 0..MaxLimit}
    \cup {[op |-> "Project", Max |-> 0, Pred |-> "none", KeyOnly |-> b] : b \in BOOLEAN}

\* a Filter.Next that returns the first row whatever the predicate says
RECURSIVE FilterNextResultNoTest(_, _, _)
FilterNextResultNoTest(p, s, pos) ==
    LET a == ChildNext(s, pos)
    IN IF a.err # "nil" \/ a.row = NilRow
       THEN [row |-> NilRow, err |-> a.err, pos |-> pos + 1]
       ELSE [row |-> a.row, err |-> "nil", pos |-> pos + 1]

\* Filter.Next: pull the child until it fails, ends or gives a row the
\* predicate keeps.  pos is the number of pulls made on the child.
RECURSIVE FilterNextResult(_, _, _)
FilterNextResult(p, s, pos) ==
    LET a == ChildNext(s, pos)
    IN IF a.err # "nil" \/ a.row = NilRow
       THEN [row |-> NilRow, err |-> a.err, pos |-> pos + 1]
       ELSE IF Pred(p, a.row)
            THEN [row |-> a.row, err |-> "nil", pos |-> pos + 1]
            ELSE FilterNextResult(p, s, pos + 1)

\* a Limit.Next that tests count > Max
LimitNextResultOffByOne(max, cnt, s, pos) ==
    IF cnt > max
    THEN [row |-> NilRow, err |-> "nil", pos |-> pos, count |-> cnt]
    ELSE LET a == ChildNext(s, pos)
         IN [row |-> a.row, err |-> a.err, pos |-> pos + 1,
             count |-> IF a.row # NilRow /\ a.err = "nil" THEN cnt + 1 ELSE cnt]

\* Limit.Next
LimitNextResult(max, cnt, s, pos) ==
    IF cnt >= max
    THEN [row |-> NilRow, err |-> "nil", pos |-> pos, count |-> cnt]
    ELSE LET a == ChildNext(s, pos)
         IN [row |-> a.row, err |-> a.err, pos |-> pos + 1,
             count |-> IF a.row # NilRow /\ a.err = "nil" THEN cnt + 1 ELSE cnt]

\* Project.Next
ProjectNextResult(keyOnly, s, pos) ==
    LET a == ChildNext(s, pos)
    IN IF a.row # NilRow /\ keyOnly
       THEN [row |-> [Key |-> a.row.Key, Value |-> ""], err |-> "nil", pos |-> pos + 1]
       ELSE [row |-> a.row, err |-> a.err, pos |-> pos + 1]

\* the planner has built an operator over some child
InitOps ==
    /\ New_Store
    /\ wal = <<>>
    /\ now = StartTime
    /\ pc = [t \in Threads |-> "idle"]
    /\ call = [t \in Threads |-> NoCall]
    /\ ret = [t \in Threads |-> NoRet]
    /\ kv = [t \in Threads |-> NoScan]
    /\ opened = [t \in Threads |-> NoOpened]
    /\ emitted = [t \in Threads |-> <<>>]
    /\ epoch = 0
    /\ last_set = [k \in Keys |-> NoSet]
    /\ applied = <<>>
    /\ op_tree \in Operators
    /\ op_pc = "new"
    /\ script \in Scripts
    /\ child_pos = 0
    /\ count = 0
    /\ trace = <<>>
    /\ tree = <<>>

\* Filter.Open, Limit.Open, Project.Open: Limit clears its counter, all three
\* open the child
OperatorOpen ==
    /\ op_pc = "new"
    /\ op_pc' = "open"
    /\ count' = IF op_tree.op = "Limit" THEN 0 ELSE count
    /\ UNCHANGED <<op_tree, script, child_pos, trace, tree>>
    /\ UNCHANGED storeVars

FilterNext ==
    /\ op_pc = "open"
    /\ op_tree.op = "Filter"
    /\ Len(trace) < MaxCalls
    /\ LET r == FilterNextResult(op_tree.Pred, script, child_pos)
       IN /\ trace' = Append(trace, [row |-> r.row, err |-> r.err])
          /\ child_pos' = r.pos
    /\ UNCHANGED <<op_tree, op_pc, script, count, tree>>
    /\ UNCHANGED storeVars

LimitNext ==
    /\ op_pc = "open"
    /\ op_tree.op = "Limit"
    /\ Len(trace) < MaxCalls
    /\ LET r == LimitNextResult(op_tree.Max, count, script, child_pos)
       IN /\ trace' = Append(trace, [row |-> r.row, err |-> r.err])
          /\ child_pos' = r.pos
          /\ count' = r.count
    /\ UNCHANGED <<op_tree, op_pc, script, tree>>
    /\ UNCHANGED storeVars

ProjectNext ==
    /\ op_pc = "open"
    /\ op_tree.op = "Project"
    /\ Len(trace) < MaxCalls
    /\ LET r == ProjectNextResult(op_tree.KeyOnly, script, child_pos)
       IN /\ trace' = Append(trace, [row |-> r.row, err |-> r.err])
          /\ child_pos' = r.pos
    /\ UNCHANGED <<op_tree, op_pc, script, count, tree>>
    /\ UNCHANGED storeVars

\* Filter.Close, Limit.Close, Project.Close: close the child
OperatorClose ==
    /\ op_pc = "open"
    /\ op_pc' = "closed"
    /\ UNCHANGED <<op_tree, script, child_pos, count, trace, tree>>
    /\ UNCHANGED storeVars

NextOps ==
    \/ OperatorOpen
    \/ FilterNext
    \/ LimitNext
    \/ ProjectNext
    \/ OperatorClose

SpecOps == InitOps /\ [][NextOps]_vars

\* the store, with the process restarting on its WAL file
NextRestart == Next \/ NewStoreAgain

SpecRestart == Init /\ [][NextRestart]_vars

\* the store with a writer thread and a thread that calls Get, Exists and Ttl
NextReads ==
    \/ \E t \in Writers : CallMutation(t)
    \/ \E t \in Writers, k \in Keys, ttl \in TTLs, v \in Values : SetLock(t, k, ttl, v)
    \/ \E t \in Writers, k \in Keys : DeleteLock(t, k)
    \/ \E t \in Writers, k \in Keys, ttl \in TTLs : ExpireLock(t, k, ttl)
    \/ \E t \in Writers : LockAcquired(t)
    \/ \E t \in Writers : ExpireMissing(t)
    \/ \E t \in Writers : LogOpEnter(t)
    \/ \E t \in Writers : LogOpOk(t)
    \/ \E t \in Writers, e \in IOErrors : LogOpFail(t, e)
    \/ \E t \in Writers : Apply(t)
    \/ \E t \in Readers, k \in Keys : CallGet(t, k)
    \/ \E t \in Readers : Get(t)
    \/ \E t \in Readers, k \in Keys : CallExists(t, k)
    \/ \E t \in Readers : Exists(t)
    \/ \E t \in Readers, k \in Keys : CallTtl(t, k)
    \/ \E t \in Readers : Ttl(t)
    \/ \E t \in Threads : Return(t)
    \/ Tick

SpecReads == Init /\ [][NextReads]_vars

\* ---------------------------------------------------- several writer threads
\* the store shared by goroutines that all call Set / Delete / Expire, within
\* one instant of the clock
Mutators == {"w1", "w2"}

InitMutators ==
    /\ New_Store
    /\ wal = <<>>
    /\ now = StartTime
    /\ pc = [t \in Mutators |-> "idle"]
    /\ call = [t \in Mutators |-> NoCall]
    /\ ret = [t \in Mutators |-> NoRet]
    /\ kv = [t \in Mutators |-> NoScan]
    /\ opened = [t \in Mutators |-> NoOpened]
    /\ emitted = [t \in Mutators |-> <<>>]
    /\ epoch = 0
    /\ last_set = [k \in Keys |-> NoSet]
    /\ applied = <<>>
    /\ InitOpsIdle

NextMutators ==
    \/ \E t \in Mutators : CallMutation(t)
    \/ \E t \in Mutators, k \in Keys, ttl \in TTLs, v \in Values : SetLock(t, k, ttl, v)
    \/ \E t \in Mutators, k \in Keys : DeleteLock(t, k)
    \/ \E t \in Mutators, k \in Keys, ttl \in TTLs : ExpireLock(t, k, ttl)
    \/ \E t \in Mutators : LockAcquired(t)
    \/ \E t \in Mutators : ExpireMissing(t)
    \/ \E t \in Mutators : LogOpEnter(t)
    \/ \E t \in Mutators : LogOpOk(t)
    \/ \E t \in Mutators, e \in IOErrors : LogOpFail(t, e)
    \/ \E t \in Mutators : Apply(t)
    \/ \E t \in Mutators : Return(t)

SpecMutators == InitMutators /\ [][NextMutators]_vars

\* ------------------------------------------------- operator trees over KVScan
\* A tree built from Filter, Limit and Project over one KVScan is a stack of
\* operators, each the Input of the one before; the last one's Input is the
\* KVScan.
MaxDepth == 2     \* operators stacked over the KVScan
Layer(o) == [op |-> o.op, Max |-> o.Max, Pred |-> o.Pred, KeyOnly |-> o.KeyOnly, count |-> 0]
\* the operators the trees are built from: a Filter, Limit(1), and Project
\* with and without KeyOnly
TreeOperators ==
    {o \in Operators : \/ o.op = "Filter" /\ o.Pred = "key LIKE a"
                       \/ o.op = "Limit" /\ o.Max = 1
                       \/ o.op = "Project"}
Trees == UNION {[1..n -> {Layer(o) : o \in TreeOperators}] : n \in 0..MaxDepth}

\* Next called on the i-th operator of the stack tr (on the KVScan when i is
\* past the stack), the KVScan holding keys and pos: the answer, and the
\* operators' counters and the KVScan's pos afterwards
RECURSIVE TreeNextResult(_, _, _, _)
TreeNextResult(tr, i, keys, pos) ==
    IF i > Len(tr)
    THEN IF pos >= Len(keys)
         THEN [row |-> NilRow, err |-> "nil", tr |-> tr, pos |-> pos]
         ELSE [row |-> [Key |-> keys[pos + 1],
                        Value |-> IF keys[pos + 1] \in DOMAIN data THEN data[keys[pos + 1]].data ELSE ""],
               err |-> "nil", tr |-> tr, pos |-> pos + 1]
    ELSE CASE tr[i].op = "Filter" ->
                LET r == TreeNextResult(tr, i + 1, keys, pos)
                IN IF r.err # "nil" \/ r.row = NilRow
                   THEN [row |-> NilRow, err |-> r.err, tr |-> r.tr, pos |-> r.pos]
                   ELSE IF Pred(tr[i].Pred, r.row)
                        THEN [row |-> r.row, err |-> "nil", tr |-> r.tr, pos |-> r.pos]
                        ELSE TreeNextResult(r.tr, i, keys, r.pos)
           [] tr[i].op = "Limit" ->
                IF tr[i].count >= tr[i].Max
                THEN [row |-> NilRow, err |-> "nil", tr |-> tr, pos |-> pos]
                ELSE LET r == TreeNextResult(tr, i + 1, keys, pos)
                     IN [row |-> r.row, err |-> r.err, pos |-> r.pos,
                         tr |-> [r.tr EXCEPT ![i].count =
                                    IF r.row # NilRow /\ r.err = "nil" THEN @ + 1 ELSE @]]
           [] tr[i].op = "Project" ->
                LET r == TreeNextResult(tr, i + 1, keys, pos)
                IN IF r.row # NilRow /\ tr[i].KeyOnly
                   THEN [row |-> [Key |-> r.row.Key, Value |-> ""], err |-> "nil",
                         tr |-> r.tr, pos |-> r.pos]
                   ELSE r

\* the planner has built a tree for the reader's query
InitTree ==
    /\ New_Store
    /\ wal = <<>>
    /\ now = StartTime
    /\ pc = [t \in Threads |-> "idle"]
    /\ call = [t \in Threads |-> NoCall]
    /\ ret = [t \in Threads |-> NoRet]
    /\ kv = [t \in Threads |-> NoScan]
    /\ opened = [t \in Threads |-> NoOpened]
    /\ emitted = [t \in Threads |-> <<>>]
    /\ epoch = 0
    /\ last_set = [k \in Keys |-> NoSet]
    /\ applied = <<>>
    /\ op_tree = NoOperator
    /\ op_pc = "new"
    /\ script = <<>>
    /\ child_pos = 0
    /\ count = 0
    /\ trace = <<>>
    /\ tree \in Trees

\* Open on the top of the tree: every Limit on the way down clears its
\* counter, and the KVScan's Open reaches RLock()
TreeCallOpen(t) ==
    /\ pc[t] = "idle"
    /\ pc' = [pc EXCEPT ![t] = "RLock"]
    /\ call' = [call EXCEPT ![t] = [op |-> "OPEN", key |-> "", value |-> "", ttl |-> 0]]
    /\ tree' = [i \in 1..Len(tree) |-> [tree[i] EXCEPT !.count = 0]]
    /\ trace' = <<>>
    /\ UNCHANGED <<data, wal, now, writer, readers, wal_lock, ret, kv, opened, emitted, epoch, last_set, applied>>
    /\ UNCHANGED <<op_tree, op_pc, script, child_pos, count>>

\* a tree whose Close does not reach the KVScan
TreeCloseKeepsLease(t) ==
    /\ pc[t] = "scan"
    /\ pc' = [pc EXCEPT ![t] = "idle"]
    /\ kv' = [kv EXCEPT ![t] = NoScan]
    /\ opened' = [opened EXCEPT ![t] = NoOpened]
    /\ emitted' = [emitted EXCEPT ![t] = <<>>]
    /\ UNCHANGED <<data, wal, now, writer, readers, wal_lock, call, ret, epoch, last_set, applied>>
    /\ UNCHANGED opsVars

\* the rest of Open: KVScan.Open is granted RLock and captures the live keys
TreeOpen(t) ==
    /\ pc[t] = "RLock"
    /\ call[t].op = "OPEN"
    /\ writer = NoThread
    /\ readers' = readers \cup {t}
    /\ \E order \in Orderings(ScanLive(data, now)) :
          kv' = [kv EXCEPT ![t] = [keys |-> order, pos |-> 0]]
    /\ opened' = [opened EXCEPT ![t] = [data |-> data, now |-> now]]
    /\ emitted' = [emitted EXCEPT ![t] = <<>>]
    /\ pc' = [pc EXCEPT ![t] = "scan"]
    /\ call' = [call EXCEPT ![t] = NoCall]
    /\ UNCHANGED <<data, wal, now, writer, wal_lock, ret, epoch, last_set, applied>>
    /\ UNCHANGED opsVars

\* a tree whose KVScan starts over once it has reported end-of-stream
TreeNextRewinds(t) ==
    /\ pc[t] = "scan"
    /\ Len(trace) < MaxCalls
    /\ LET r == TreeNextResult(tree, 1, kv[t].keys, kv[t].pos)
       IN /\ trace' = Append(trace, [row |-> r.row, err |-> r.err])
          /\ tree' = r.tr
          /\ kv' = [kv EXCEPT ![t].pos = IF kv[t].pos >= Len(kv[t].keys) THEN 0 ELSE r.pos]
          /\ emitted' = [emitted EXCEPT ![t] = @ \o SubSeq(kv[t].keys, kv[t].pos + 1, r.pos)]
    /\ UNCHANGED <<data, wal, now, writer, readers, wal_lock, pc, call, ret, opened, epoch, last_set, applied>>
    /\ UNCHANGED <<op_tree, op_pc, script, child_pos, count>>

\* Next on the top of the tree
TreeNext(t) ==
    /\ pc[t] = "scan"
    /\ Len(trace) < MaxCalls
    /\ LET r == TreeNextResult(tree, 1, kv[t].keys, kv[t].pos)
       IN /\ trace' = Append(trace, [row |-> r.row, err |-> r.err])
          /\ tree' = r.tr
          /\ kv' = [kv EXCEPT ![t].pos = r.pos]
          /\ emitted' = [emitted EXCEPT ![t] = @ \o SubSeq(kv[t].keys, kv[t].pos + 1, r.pos)]
    /\ UNCHANGED <<data, wal, now, writer, readers, wal_lock, pc, call, ret, opened, epoch, last_set, applied>>
    /\ UNCHANGED <<op_tree, op_pc, script, child_pos, count>>

\* Close on the top of the tree: every operator closes its Input, the
\* KVScan's Close is RUnlock
TreeClose(t) ==
    /\ pc[t] = "scan"
    /\ readers' = readers \ {t}
    /\ pc' = [pc EXCEPT ![t] = "idle"]
    /\ kv' = [kv EXCEPT ![t] = NoScan]
    /\ opened' = [opened EXCEPT ![t] = NoOpened]
    /\ emitted' = [emitted EXCEPT ![t] = <<>>]
    /\ UNCHANGED <<data, wal, now, writer, wal_lock, call, ret, epoch, last_set, applied>>
    /\ UNCHANGED opsVars

NextTree ==
    \/ \E t \in Writers : CallMutation(t)
    \/ \E t \in Writers, k \in Keys, ttl \in TTLs, v \in Values : SetLock(t, k, ttl, v)
    \/ \E t \in Writers, k \in Keys : DeleteLock(t, k)
    \/ \E t \in Writers, k \in Keys, ttl \in TTLs : ExpireLock(t, k, ttl)
    \/ \E t \in Writers : LockAcquired(t)
    \/ \E t \in Writers : ExpireMissing(t)
    \/ \E t \in Writers : LogOpEnter(t)
    \/ \E t \in Writers : LogOpOk(t)
    \/ \E t \in Writers, e \in IOErrors : LogOpFail(t, e)
    \/ \E t \in Writers : Apply(t)
    \/ \E t \in Writers : Return(t)
    \/ \E t \in Readers : TreeCallOpen(t)
    \/ \E t \in Readers : TreeOpen(t)
    \/ \E t \in Readers : TreeNext(t)
    \/ \E t \in Readers : TreeClose(t)
    \/ Tick

\* the store with a writer thread and a thread that runs queries
SpecTree == InitTree /\ [][NextTree]_vars

\* ---------------------------------------------------------- command dispatch
\* The shell's tokens.  A command is a verb followed by payload tokens; the
\* second token is a key name, the later ones are values, durations or
\* anything else.
VerbTokens == {"SET", "set", "GET", "DELETE", "EXPIRE", "TTL", "EXISTS", "FLUSH"}
KeyTokens == {"a"}
LaterTokens == {"x", "1s"}
MaxParts == 5     \* the longest token list handed to Process
PartsOfLen(n) ==
    {p \in [1..n -> VerbTokens \cup KeyTokens \cup LaterTokens] :
        /\ p[1] \in VerbTokens
        /\ n >= 2 => p[2] \in KeyTokens
        /\ \A i \in 3..n : p[i] \in LaterTokens}
InputParts == UNION {PartsOfLen(n) : n \in 1..MaxParts}

\* strings.ToUpper on a verb token
ToUpper(tok) == IF tok = "set" THEN "SET" ELSE tok

\* time.ParseDuration: the duration of a literal, or an error
ParseDuration(tok) ==
    CASE tok = "0s" -> [ttl |-> 0, err |-> "nil"]
      [] tok = "1s" -> [ttl |-> 1, err |-> "nil"]
      [] OTHER -> [ttl |-> 0, err |-> "invalid duration"]

\* what Process printed for a command, and nothing else changed
Logged(t, parts, msg) ==
    /\ ret' = [ret EXCEPT ![t] = [err |-> msg, value |-> "", found |-> FALSE, parts |-> parts]]
    /\ UNCHANGED <<data, wal, now, writer, readers, wal_lock, pc, call, kv, opened, emitted, epoch, last_set, applied>>
    /\ UNCHANGED opsVars

\* Process calling Store.Set, Store.Delete or Store.Expire with arguments c,
\* from the shell's single thread: the call runs from Lock to Unlock with
\* log_op ending in e, and Process prints the outcome
Mutated(t, parts, c, failed, succeeded) ==
  \E e \in {"nil"} \cup IOErrors :
    /\ Len(wal) < MaxWal
    /\ pc[t] = "idle"
    /\ writer = NoThread /\ readers = {} /\ wal_lock = NoThread
    /\ IF c.op = "EXPIRE" /\ c.key \notin DOMAIN data
       THEN /\ ret' = [ret EXCEPT ![t] = [err |-> failed, value |-> ErrNotFound, found |-> FALSE, parts |-> parts]]
            /\ UNCHANGED <<data, wal, last_set, applied>>
       ELSE /\ wal' = IF e = "open" THEN wal
                      ELSE Append(wal, [line |-> WalLine(c.op, c.key, c.value, c.ttl), synced |-> e = "nil"])
            /\ data' = IF e = "nil" THEN Applied(data, c, now) ELSE data
            /\ last_set' = IF e # "nil" THEN last_set
                           ELSE [last_set EXCEPT ![c.key] =
                                    IF c.op = "SET" /\ c.ttl > 0 THEN [at |-> now, ttl |-> c.ttl] ELSE NoSet]
            /\ applied' = IF e = "nil" THEN Append(applied, c) ELSE applied
            /\ ret' = [ret EXCEPT ![t] = [err |-> IF e = "nil" THEN succeeded ELSE failed,
                                          value |-> e, found |-> FALSE, parts |-> parts]]
    /\ UNCHANGED <<now, writer, readers, wal_lock, pc, call, kv, opened, emitted, epoch>>
    /\ UNCHANGED opsVars

\* Store.Process, case "SET"
ProcessSet(t, parts) ==
    /\ ToUpper(parts[1]) = "SET"
    /\ IF Len(parts) < 3
       THEN Logged(t, parts, "SET command requires at least a key and a value")
       ELSE IF Len(parts) = 4 /\ ParseDuration(parts[4]).err # "nil"
            THEN Logged(t, parts, "Invalid TTL format")
            ELSE Mutated(t, parts,
                         [op |-> "SET", key |-> parts[2], value |-> parts[3],
                          ttl |-> IF Len(parts) = 4 THEN ParseDuration(parts[4]).ttl ELSE 0],
                         "Error setting key", "Key set successfully")

\* Store.Process, case "GET"
ProcessGet(t, parts) ==
    /\ ToUpper(parts[1]) = "GET"
    /\ IF Len(parts) # 2
       THEN Logged(t, parts, "GET command requires a key")
       ELSE /\ pc[t] = "idle" /\ writer = NoThread
            /\ LET r == GetResult(data, parts[2], now)
               IN ret' = [ret EXCEPT ![t] = [err |-> IF r.found THEN "Value for key" ELSE "Key does not exist",
                                             value |-> r.value, found |-> r.found, parts |-> parts]]
            /\ UNCHANGED <<data, wal, now, writer, readers, wal_lock, pc, call, kv, opened, emitted, epoch, last_set, applied>>
            /\ UNCHANGED opsVars

\* Store.Process, case "DELETE"
ProcessDelete(t, parts) ==
    /\ ToUpper(parts[1]) = "DELETE"
    /\ IF Len(parts) # 2
       THEN Logged(t, parts, "DELETE command requires a key")
       ELSE Mutated(t, parts, [op |-> "DELETE", key |-> parts[2], value |-> "", ttl |-> 0],
                    "Error deleting key", "Key deleted successfully")

\* Store.Process, case "EXPIRE"
ProcessExpire(t, parts) ==
    /\ ToUpper(parts[1]) = "EXPIRE"
    /\ IF Len(parts) # 3
       THEN Logged(t, parts, "EXPIRE command requires a key and a TTL")
       ELSE IF ParseDuration(parts[3]).err # "nil"
            THEN Logged(t, parts, "Invalid TTL format")
            ELSE Mutated(t, parts,
                         [op |-> "EXPIRE", key |-> parts[2], value |-> "", ttl |-> ParseDuration(parts[3]).ttl],
                         "Error setting expiry", "Expiry set successfully")

\* Store.Process, case "TTL"
ProcessTtl(t, parts) ==
    /\ ToUpper(parts[1]) = "TTL"
    /\ IF Len(parts) # 2
       THEN Logged(t, parts, "TTL command requires a key")
       ELSE /\ pc[t] = "idle" /\ writer = NoThread
            /\ LET r == TtlResult(data, parts[2], now)
               IN ret' = [ret EXCEPT ![t] = [err |-> IF r.err # "nil" THEN "Error getting TTL" ELSE "Current time",
                                             value |-> r.err, found |-> r.err = "nil", parts |-> parts,
                                             now |-> r.now, remaining |-> r.remaining, expiry |-> r.expiry]]
            /\ UNCHANGED <<data, wal, now, writer, readers, wal_lock, pc, call, kv, opened, emitted, epoch, last_set, applied>>
            /\ UNCHANGED opsVars

\* Store.Process, case "EXISTS"
ProcessExists(t, parts) ==
    /\ ToUpper(parts[1]) = "EXISTS"
    /\ IF Len(parts) # 2
       THEN Logged(t, parts, "EXISTS command requires a key")
       ELSE /\ pc[t] = "idle" /\ writer = NoThread
            /\ ret' = [ret EXCEPT ![t] = [err |-> IF parts[2] \in DOMAIN data THEN "Key exists" ELSE "Key does not exist",
                                          value |-> "", found |-> parts[2] \in DOMAIN data, parts |-> parts]]
            /\ UNCHANGED <<data, wal, now, writer, readers, wal_lock, pc, call, kv, opened, emitted, epoch, last_set, applied>>
            /\ UNCHANGED opsVars

\* Store.Process, default
ProcessUnknown(t, parts) ==
    /\ ToUpper(parts[1]) \notin {"SET", "GET", "DELETE", "EXPIRE", "TTL", "EXISTS"}
    /\ Logged(t, parts, "Unknown command")

\* Store.Process(input_parts)
Process(t, parts) ==
    \/ ProcessSet(t, parts)
    \/ ProcessGet(t, parts)
    \/ ProcessDelete(t, parts)
    \/ ProcessExpire(t, parts)
    \/ ProcessTtl(t, parts)
    \/ ProcessExists(t, parts)
    \/ ProcessUnknown(t, parts)

NextProcess ==
    \/ \E t \in Writers, parts \in InputParts : Process(t, parts)
    \/ Tick

\* the shell: one thread handing commands to Process, one after the other
SpecProcess == Init /\ [][NextProcess]_vars

\* ------------------------------------------------- writers against open scans
\* two threads calling Set / Delete / Expire and a thread running KVScans,
\* within one instant of the clock, under the scheduling the runtime gives
LiveThreads == Mutators \cup Readers

InitLive ==
    /\ New_Store
    /\ wal = <<>>
    /\ now = StartTime
    /\ pc = [t \in LiveThreads |-> "idle"]
    /\ call = [t \in LiveThreads |-> NoCall]
    /\ ret = [t \in LiveThreads |-> NoRet]
    /\ kv = [t \in LiveThreads |-> NoScan]
    /\ opened = [t \in LiveThreads |-> NoOpened]
    /\ emitted = [t \in LiveThreads |-> <<>>]
    /\ epoch = 0
    /\ last_set = [k \in Keys |-> NoSet]
    /\ applied = <<>>
    /\ InitOpsIdle

\* the calls these threads make all name one key and one payload: which key
\* and payload a call carries plays no part in what it waits for
LiveKeys == {"a"}
LiveValues == {"x"}

\* s.lock.Lock() lets the thread through, with whatever arguments its call has
LockSome(t) ==
    \/ \E k \in LiveKeys, ttl \in TTLs, v \in LiveValues : SetLock(t, k, ttl, v)
    \/ \E k \in LiveKeys : DeleteLock(t, k)
    \/ \E k \in LiveKeys, ttl \in TTLs : ExpireLock(t, k, ttl)

\* wal.log_op returns, with nil or with an I/O error
LogOpReturns(t) == LogOpOk(t) \/ \E e \in IOErrors : LogOpFail(t, e)

NextLive ==
    \/ \E t \in Mutators : CallMutation(t)
    \/ \E t \in Mutators : LockSome(t)
    \/ \E t \in Mutators : LockAcquired(t)
    \/ \E t \in Mutators : ExpireMissing(t)
    \/ \E t \in Mutators : LogOpEnter(t)
    \/ \E t \in Mutators : LogOpReturns(t)
    \/ \E t \in Mutators : Apply(t)
    \/ \E t \in Mutators : Return(t)
    \/ \E t \in Readers : CallOpen(t)
    \/ \E t \in Readers : KVScanOpen(t)
    \/ \E t \in Readers : KVScanNext(t)
    \/ \E t \in Readers : KVScanClose(t)

\* The scheduling: sync.Mutex hands the lock to a goroutine that has waited
\* for it (starvation mode), so a thread that can again and again enter Lock
\* does enter; a runnable goroutine runs; WAL I/O completes; every opened
\* KVScan is closed.
FairLive ==
    /\ \A t \in Mutators :
          /\ SF_vars(LockSome(t))
          /\ WF_vars(LockAcquired(t))
          /\ WF_vars(ExpireMissing(t) \/ LogOpEnter(t))
          /\ WF_vars(LogOpReturns(t))
          /\ WF_vars(Apply(t))
    /\ \A r \in Readers : WF_vars(KVScanClose(r))

SpecLive == InitLive /\ [][NextLive]_vars /\ FairLive

\* --------------------------------------------------- the first store iteration
\* src/unnamed/part_001: a map from key{name, ttl} to value{data, timestamp}
\* behind the reader-writer lock, with no WAL; Get removes the entry it finds
\* expired, giving up its shared lease to take the lock exclusively.
store_Keys == {[name |-> "a", ttl |-> ttl] : ttl \in TTLs}

\* k.ttl > 0 && time.Since(val.timestamp) > k.ttl
store_Expired(k, val, t) == k.ttl > 0 /\ t - val.timestamp > k.ttl

\* what the later iteration's variables do in this one: nothing
store_Unused == <<wal, wal_lock, kv, opened, emitted, epoch, last_set, applied>>

\* a thread enters store.Set and reaches s.lock.Lock()
store_CallSet(t, k, v) ==
    /\ pc[t] = "idle"
    /\ pc' = [pc EXCEPT ![t] = "Lock"]
    /\ call' = [call EXCEPT ![t] = [op |-> "SET", key |-> k, value |-> v]]
    /\ UNCHANGED <<data, now, writer, readers, ret>>
    /\ UNCHANGED store_Unused
    /\ UNCHANGED opsVars

\* s.lock.Lock() in store.Set or store.Get, first half: the thread is the one
\* writer, and no new reader is admitted
store_Lock(t) ==
    /\ pc[t] = "Lock"
    /\ writer = NoThread
    /\ writer' = t
    /\ pc' = [pc EXCEPT ![t] = "Drain"]
    /\ UNCHANGED <<data, now, readers, call, ret>>
    /\ UNCHANGED store_Unused
    /\ UNCHANGED opsVars

\* the rest of store.Set: the readers have left, the entry is stored with
\* time.Now(), the deferred Unlock runs
store_Set(t) ==
    /\ pc[t] = "Drain"
    /\ call[t].op = "SET"
    /\ readers = {}
    /\ data' = MapPut(data, call[t].key, [data |-> call[t].value, timestamp |-> now])
    /\ writer' = NoThread
    /\ ret' = [ret EXCEPT ![t] = Returned("nil", "", FALSE)]
    /\ pc' = [pc EXCEPT ![t] = "done"]
    /\ call' = [call EXCEPT ![t] = NoCall]
    /\ UNCHANGED <<now, readers>>
    /\ UNCHANGED store_Unused
    /\ UNCHANGED opsVars

\* a thread enters store.Get and reaches s.lock.RLock()
store_CallGet(t, k) ==
    /\ pc[t] = "idle"
    /\ pc' = [pc EXCEPT ![t] = "RLock"]
    /\ call' = [call EXCEPT ![t] = [op |-> "GET", key |-> k, exists |-> FALSE,
                                    val |-> [data |-> "", timestamp |-> ZeroTime]]]
    /\ UNCHANGED <<data, now, writer, readers, ret>>
    /\ UNCHANGED store_Unused
    /\ UNCHANGED opsVars

\* store.Get: RLock is granted and val, exists := s.data[k] is read
store_GetRLock(t) ==
    /\ pc[t] = "RLock"
    /\ writer = NoThread
    /\ readers' = readers \cup {t}
    /\ call' = [call EXCEPT ![t].exists = call[t].key \in DOMAIN data,
                            ![t].val = IF call[t].key \in DOMAIN data THEN data[call[t].key] ELSE @]
    /\ pc' = [pc EXCEPT ![t] = "read"]
    /\ UNCHANGED <<data, now, writer, ret>>
    /\ UNCHANGED store_Unused
    /\ UNCHANGED opsVars

\* store.Get, the key is missing or has not expired: the answer, and the
\* deferred RUnlock
store_GetReturn(t) ==
    /\ pc[t] = "read"
    /\ ~(call[t].exists /\ store_Expired(call[t].key, call[t].val, now))
    /\ ret' = [ret EXCEPT ![t] = IF call[t].exists
                                 THEN Returned("nil", call[t].val.data, TRUE)
                                 ELSE Returned("nil", "", FALSE)]
    /\ readers' = readers \ {t}
    /\ pc' = [pc EXCEPT ![t] = "done"]
    /\ call' = [call EXCEPT ![t] = NoCall]
    /\ UNCHANGED <<data, now, writer>>
    /\ UNCHANGED store_Unused
    /\ UNCHANGED opsVars

\* store.Get, the key has expired: s.lock.RUnlock(), and s.lock.Lock() is
\* reached
store_GetRUnlock(t) ==
    /\ pc[t] = "read"
    /\ call[t].exists
    /\ store_Expired(call[t].key, call[t].val, now)
    /\ readers' = readers \ {t}
    /\ pc' = [pc EXCEPT ![t] = "Lock"]
    /\ UNCHANGED <<data, now, writer, call, ret>>
    /\ UNCHANGED store_Unused
    /\ UNCHANGED opsVars

\* store.Get under the exclusive lock: delete(s.data, k), s.lock.Unlock(), and
\* s.lock.RLock() is reached
store_GetDelete(t) ==
    /\ pc[t] = "Drain"
    /\ call[t].op = "GET"
    /\ readers = {}
    /\ data' = MapDelete(data, call[t].key)
    /\ writer' = NoThread
    /\ pc' = [pc EXCEPT ![t] = "RLock again"]
    /\ UNCHANGED <<now, readers, call, ret>>
    /\ UNCHANGED store_Unused
    /\ UNCHANGED opsVars

\* store.Get: the shared lease is taken again
store_GetRLockAgain(t) ==
    /\ pc[t] = "RLock again"
    /\ writer = NoThread
    /\ readers' = readers \cup {t}
    /\ pc' = [pc EXCEPT ![t] = "return"]
    /\ UNCHANGED <<data, now, writer, call, ret>>
    /\ UNCHANGED store_Unused
    /\ UNCHANGED opsVars

\* store.Get: return "", false, and the deferred RUnlock
store_GetReturnExpired(t) ==
    /\ pc[t] = "return"
    /\ ret' = [ret EXCEPT ![t] = Returned("nil", "", FALSE)]
    /\ readers' = readers \ {t}
    /\ pc' = [pc EXCEPT ![t] = "done"]
    /\ call' = [call EXCEPT ![t] = NoCall]
    /\ UNCHANGED <<data, now, writer>>
    /\ UNCHANGED store_Unused
    /\ UNCHANGED opsVars

NextFirst ==
    \/ \E t \in Writers, k \in store_Keys, v \in Values : store_CallSet(t, k, v)
    \/ \E t \in Threads : store_Lock(t)
    \/ \E t \in Writers : store_Set(t)
    \/ \E t \in Readers, k \in store_Keys : store_CallGet(t, k)
    \/ \E t \in Readers : store_GetRLock(t)
    \/ \E t \in Readers : store_GetReturn(t)
    \/ \E t \in Readers : store_GetRUnlock(t)
    \/ \E t \in Readers : store_GetDelete(t)
    \/ \E t \in Readers : store_GetRLockAgain(t)
    \/ \E t \in Readers : store_GetReturnExpired(t)
    \/ \E t \in Threads : Return(t)
    \/ Tick

\* the first iteration, with a thread calling Set and a thread calling Get
SpecFirst == Init /\ [][NextFirst]_vars

\* ------------------------------------------------------------------ claims
LineOf(c) == WalLine(c.op, c.key, c.value, c.ttl)

\* C1: in Set, Delete and Expire the WAL append comes before the map is
\* modified: the map changes only in the step of a thread whose log_op has
\* returned nil and whose line is the last one of the file; and when log_op
\* fails the call returns that I/O error and the map is as it was.
C1_WalBeforeMap ==
    [][ /\ data' # data =>
             \E t \in Threads :
                /\ pc[t] = "logged"
                /\ Len(wal) > 0
                /\ wal[Len(wal)] = [line |-> LineOf(call[t]), synced |-> TRUE]
                /\ wal' = wal
        /\ \A t \in Threads :
             (pc[t] = "log_op" /\ pc'[t] = "done") =>
                 /\ ret'[t].err \in IOErrors
                 /\ data' = data
                 /\ (wal' # wal <=> ret'[t].err = "sync")
      ]_vars

\* C1 witness: a mutation has returned an I/O error while the map holds a key
C1_Witness ==
    \E t \in Threads : pc[t] = "done" /\ ret[t].err \in IOErrors /\ DOMAIN data # {}

\* C2: every key Get reports as found has a line SET <key> <its payload> in
\* the WAL that log_op wrote and synced; this holds in every state, hence
\* from the first state in which the key is visible.
C2_VisibleKeysAreLogged ==
    \A k \in Keys :
        GetResult(data, k, now).found =>
            \E i \in 1..Len(wal) :
                wal[i] = [line |-> <<<<"SET", k, GetResult(data, k, now).value>>>>, synced |-> TRUE]

\* C2 witness: a key is found while the file also holds a line whose append
\* failed
C2_Witness ==
    /\ \E k \in Keys : GetResult(data, k, now).found
    /\ \E i \in 1..Len(wal) : ~wal[i].synced

\* the keys of map m that are not expired at instant t (expiry is at
\* expires_at: the key is live strictly before it)
LiveAt(m, t) == {k \in DOMAIN m : m[k].expires_at = ZeroTime \/ t < m[k].expires_at}

SeqRange(q) == {q[i] : i \in 1..Len(q)}
NoRepeat(q) == \A i, j \in 1..Len(q) : i # j => q[i] # q[j]

\* C3: a KVScan opened at T and pulled to end-of-stream has emitted exactly
\* the keys that were in the map and not expired at T, each once, whatever
\* mutations other threads have issued since.
C3_ScanSnapshot ==
    \A t \in Readers :
        (pc[t] = "scan" /\ kv[t].pos >= Len(kv[t].keys)) =>
            /\ SeqRange(emitted[t]) = LiveAt(opened[t].data, opened[t].now)
            /\ NoRepeat(emitted[t])

\* C3 witness: a scan is at end-of-stream after emitting a key, the clock has
\* moved since Open and a mutation issued after Open is waiting in Lock
C3_Witness ==
    \E t \in Readers :
        /\ pc[t] = "scan"
        /\ kv[t].pos >= Len(kv[t].keys)
        /\ Len(emitted[t]) > 0
        /\ now > opened[t].now
        /\ \E w \in Writers : pc[w] = "Drain"

\* C4: between a KVScan's Open and its Close the map is what it was at Open
C4_NoMutationDuringScan ==
    \A t \in Readers : pc[t] = "scan" => data = opened[t].data

\* C4 witness: a scan is open on a non-empty map, a Next has returned a row
\* and a mutation is held in Lock
C4_Witness ==
    \E t \in Readers :
        /\ pc[t] = "scan"
        /\ Len(emitted[t]) > 0
        /\ \E w \in Writers : pc[w] = "Drain" /\ call[w].op \in {"SET", "DELETE", "EXPIRE"}

\* C5: a key set with ttl t > 0 at SET_time, with no later operation on it, is
\* found by Get at every instant before SET_time + t and not found at every
\* instant from SET_time + t on, that instant included.
C5_TtlWindow ==
    \A k \in Keys :
        last_set[k] # NoSet =>
            (GetResult(data, k, now).found <=> now < last_set[k].at + last_set[k].ttl)

\* what Store.Get does instead: the key is still found at SET_time + t itself
C5_GetWindowInCode ==
    \A k \in Keys :
        last_set[k] # NoSet =>
            (GetResult(data, k, now).found <=> now <= last_set[k].at + last_set[k].ttl)

\* C6: Expire on a key that is not in the map returns the not-found error,
\* appends nothing to the WAL and leaves the map unchanged.
C6_ExpireMissingKey ==
    [][ \A t \in Writers :
          (/\ pc[t] = "Locked"
           /\ call[t].op = "EXPIRE"
           /\ call[t].key \notin DOMAIN data
           /\ pc'[t] # pc[t]) =>
              /\ pc'[t] = "done"
              /\ ret'[t].err = ErrNotFound
              /\ wal' = wal
              /\ data' = data
      ]_vars

\* C6 witness: Expire has returned the not-found error for a key that is not
\* in the map, while the map and the WAL are not empty
C6_Witness ==
    \E t \in Writers :
        /\ pc[t] = "done"
        /\ ret[t].err = ErrNotFound
        /\ DOMAIN data # {}
        /\ DOMAIN data # Keys
        /\ Len(wal) > 0

Payloads(m) == [k \in DOMAIN m |-> m[k].data]

\* C9: after successful calls only, a new store built on the WAL they wrote
\* has the keys and payloads of the map they produced (and the WAL is not
\* appended to).
C9_ReplayReproducesMap ==
    [][ (/\ epoch' # epoch
         /\ \A t \in Threads : pc[t] = "idle"
         /\ \A i \in 1..Len(wal) : wal[i].synced) =>
            /\ Payloads(data') = Payloads(data)
            /\ wal' = wal
      ]_vars

\* C10: every line of the WAL carries, after its payload, the CRC32 of that
\* payload as a second '|'-separated field.
C10_RecordsCarryCrc ==
    \A i \in 1..Len(wal) : Len(wal[i].line) = 2

\* a Next answer that is a row: a row and no error
IsRowAnswer(a) == a.row # NilRow /\ a.err = "nil"
RowAnswers(q) == SelectSeq(q, IsRowAnswer)
EmittedCount == Len(RowAnswers(trace))
AllButLastAreRows(q) == \A i \in 1..(Len(q) - 1) : IsRowAnswer(q[i])

\* C7 as stated: over any sequence of Next calls Limit(N) emits at most N
\* rows, does not pull the child once its counter has reached N, and in total
\* pulls the child at most once more than the rows it emitted.
C7_LimitBoundAnyCalls ==
    [][ op_tree.op = "Limit" =>
          /\ EmittedCount' <= op_tree.Max
          /\ (count >= op_tree.Max => child_pos' = child_pos)
          /\ child_pos' <= EmittedCount' + 1
      ]_vars

\* C7, amended: Limit(N) emits at most N rows and does not pull the child
\* once its counter has reached N; up to and including the first Next call
\* that returns no row (end-of-stream or an error) it has pulled the child at
\* most once more than the rows it emitted.
C7_LimitBound ==
    [][ op_tree.op = "Limit" =>
          /\ EmittedCount' <= op_tree.Max
          /\ (count >= op_tree.Max => child_pos' = child_pos)
          /\ (AllButLastAreRows(trace') => child_pos' <= EmittedCount' + 1)
      ]_vars

\* C7 witness: Limit(N), N > 0, has emitted N rows and then answered
\* end-of-stream without pulling a child that had more to give
C7_Witness ==
    /\ op_tree.op = "Limit"
    /\ op_tree.Max > 0
    /\ EmittedCount = op_tree.Max
    /\ Len(trace) > op_tree.Max
    /\ trace[Len(trace)] = EndOfStream
    /\ child_pos = op_tree.Max
    /\ child_pos < Len(script)
    /\ IsRowAnswer(script[child_pos + 1])

\* the answers the child has given so far
ChildGiven == SubSeq(script, 1, IF child_pos < Len(script) THEN child_pos ELSE Len(script))
KeptByPred(a) == Pred(op_tree.Pred, a.row)

\* C8: the rows Filter has emitted are exactly the rows its child has given
\* that satisfy the predicate, in the child's order.
C8_FilterExact ==
    op_tree.op = "Filter" =>
        RowAnswers(trace) = SelectSeq(RowAnswers(ChildGiven), KeptByPred)

\* C8 witness: Filter has skipped a row, emitted a later one and reached
\* end-of-stream
C8_Witness ==
    /\ op_tree.op = "Filter"
    /\ Len(trace) >= 2
    /\ IsRowAnswer(trace[1])
    /\ trace[Len(trace)] = EndOfStream
    /\ IsRowAnswer(script[1])
    /\ ~KeptByPred(script[1])
    /\ child_pos > Len(script)

\* the lines of the WAL whose append returned nil
IsSynced(r) == r.synced
SyncedLines == [i \in 1..Len(SelectSeq(wal, IsSynced)) |-> SelectSeq(wal, IsSynced)[i].line]
AppliedLines == [i \in 1..Len(applied) |-> LineOf(applied[i])]
AwaitingApply == {t \in DOMAIN pc : pc[t] = "logged"}
OfKey(q, k) == SelectSeq(q, LAMBDA l : l[1][2] = k)

\* C11: with several threads calling Set, Delete and Expire, the records of
\* the WAL (those whose append succeeded) are in the order in which the map
\* took the mutations: the applied mutations are the WAL's records in file
\* order, short of at most the last one, whose writer is between log_op and
\* the map update; the same holds key by key.
C11_WalOrderIsMapOrder ==
    /\ Cardinality(AwaitingApply) <= 1
    /\ Len(SyncedLines) = Len(AppliedLines) + Cardinality(AwaitingApply)
    /\ AppliedLines = SubSeq(SyncedLines, 1, Len(AppliedLines))
    /\ \A k \in Keys :
          OfKey(AppliedLines, k) = SubSeq(OfKey(SyncedLines, k), 1, Len(OfKey(AppliedLines, k)))

\* C11 witness: a mutation of a key has been applied, another mutation of the
\* same key sits in the WAL between log_op and the map, and the other thread
\* is held at Lock
C11_Witness ==
    /\ Len(applied) >= 1
    /\ \E t \in Mutators :
          /\ pc[t] = "logged"
          /\ call[t].key = applied[1].key
          /\ call[t] # applied[1]
          /\ \E u \in Mutators \ {t} : pc[u] = "Lock"

\* C12 as stated: a Get that is waiting at RLock while another thread is
\* inside log_op can complete before that append finishes.
C12_GetNotBlockedByAppend ==
    \A r \in Readers, w \in Writers :
        (pc[r] = "RLock" /\ call[r].op = "GET" /\ pc[w] = "log_op") => ENABLED Get(r)

\* C12, amended: readers never take the WAL lock, but a Get completes only
\* when no thread holds or awaits the map lock exclusively; a Get issued
\* while another thread is inside log_op therefore completes only after that
\* append has finished and its caller has released the map lock.
C12_GetWaitsForAppend ==
    [][ \A r \in Readers :
          (pc[r] = "RLock" /\ call[r].op = "GET" /\ pc'[r] = "done") =>
              /\ wal_lock = NoThread
              /\ writer = NoThread
              /\ \A w \in Writers : pc[w] \notin {"Drain", "Locked", "log_op", "logged"}
              /\ wal_lock' = NoThread
      ]_vars

\* C12 witness: a Get is held at RLock while another thread is inside log_op
\* with the WAL lock, on a map that holds the key asked for
C12_Witness ==
    \E r \in Readers, w \in Writers :
        /\ pc[r] = "RLock"
        /\ call[r].op = "GET"
        /\ call[r].key \in DOMAIN data
        /\ pc[w] = "log_op"
        /\ wal_lock = w

Expired(m, k, t) == k \in DOMAIN m /\ m[k].expires_at # ZeroTime /\ t > m[k].expires_at

\* C13: Get, Exists and Ttl change neither the map nor the WAL; a Get on a
\* key whose expires_at has passed reports not-found and leaves the entry in
\* the map; a key leaves the map only in a Delete and its payload changes only
\* in a Set.
C13_ReadsChangeNothing ==
    [][ /\ \A r \in Readers :
             (pc[r] = "RLock" /\ call[r].op \in {"GET", "EXISTS", "TTL"} /\ pc'[r] = "done") =>
                 /\ data' = data
                 /\ wal' = wal
                 /\ (call[r].op = "GET" /\ Expired(data, call[r].key, now)) =>
                        /\ ~ret'[r].found
                        /\ call[r].key \in DOMAIN data'
        /\ \A k \in DOMAIN data :
             /\ k \notin DOMAIN data' =>
                   \E w \in Writers : pc[w] = "logged" /\ call[w] = [op |-> "DELETE", key |-> k, value |-> "", ttl |-> 0]
             /\ (k \in DOMAIN data' /\ data'[k].data # data[k].data) =>
                   \E w \in Writers : pc[w] = "logged" /\ call[w].op = "SET" /\ call[w].key = k
      ]_vars

\* C13 witness: a read has answered not-found (Get) or expired (Ttl) while
\* both keys are in the map, one of them past its expires_at
C13_Witness ==
    \E r \in Readers :
        /\ pc[r] = "done"
        /\ \/ ret[r] = Returned("nil", "", FALSE)
           \/ ret[r].err = ErrExpired
        /\ DOMAIN data = Keys
        /\ \E k \in Keys : Expired(data, k, now)

\* the arity rule: SET takes 2 or 3 payload tokens, DELETE / GET / TTL /
\* EXISTS exactly 1, EXPIRE exactly 2
PayloadCount(parts) == Len(parts) - 1
Verb(parts) == ToUpper(parts[1])
BadArity(parts) ==
    \/ Verb(parts) = "SET" /\ PayloadCount(parts) \notin {2, 3}
    \/ Verb(parts) \in {"DELETE", "GET", "TTL", "EXISTS"} /\ PayloadCount(parts) # 1
    \/ Verb(parts) = "EXPIRE" /\ PayloadCount(parts) # 2
BadTtl(parts) ==
    \/ Verb(parts) = "SET" /\ PayloadCount(parts) = 3 /\ ParseDuration(parts[4]).err # "nil"
    \/ Verb(parts) = "EXPIRE" /\ PayloadCount(parts) = 2 /\ ParseDuration(parts[3]).err # "nil"
BadVerb(parts) == Verb(parts) \notin {"SET", "GET", "DELETE", "EXPIRE", "TTL", "EXISTS"}

\* the command a step of Process has just handled
Handled(t) == ret'[t].parts

\* C14: a command that breaks the arity rule, has an unparseable TTL or an
\* unknown verb changes neither the map nor the WAL.
C14_BadCommandsChangeNothing ==
    [][ \A t \in Writers :
          (/\ ret'[t] # ret[t]
           /\ BadArity(Handled(t)) \/ BadTtl(Handled(t)) \/ BadVerb(Handled(t))) =>
              data' = data /\ wal' = wal
      ]_vars

\* what Process does instead: the same, except that SET with more than 3
\* payload tokens is carried out as a SET of the first two, without ttl
C14_RejectedInCode ==
    [][ \A t \in Writers :
          (/\ ret'[t] # ret[t]
           /\ BadArity(Handled(t)) \/ BadTtl(Handled(t)) \/ BadVerb(Handled(t))
           /\ ~(Verb(Handled(t)) = "SET" /\ PayloadCount(Handled(t)) > 3)) =>
              data' = data /\ wal' = wal
      ]_vars

\* C15: the record log_op appends for a Set with ttl # 0 is
\* SET <name> <value> <ttl>; it differs from the record of the same Set
\* without ttl.
C15_SetRecordCarriesTtl ==
    [][ \A t \in Writers :
          (pc[t] = "log_op" /\ call[t].op = "SET" /\ call[t].ttl # 0 /\ wal' # wal) =>
              /\ wal'[Len(wal')].line[1] =
                     <<"SET", call[t].key, call[t].value, DurationString(call[t].ttl)>>
              /\ wal'[Len(wal')].line # WalLine("SET", call[t].key, call[t].value, 0)
      ]_vars

\* C16: the WAL only grows.  A step leaves it alone or appends one record
\* after the ones it has; a successful Set / Delete / Expire appends exactly
\* one, its own, inside log_op; Expire on a missing key, the reads and the
\* scans append nothing; Delete of an absent key goes through log_op and
\* returns nil.
C16_WalOnlyGrows ==
    [][ /\ \/ wal' = wal
           \/ Len(wal') = Len(wal) + 1 /\ SubSeq(wal', 1, Len(wal)) = wal
        /\ wal' # wal => \E t \in Writers : pc[t] = "log_op" /\ pc'[t] # "log_op"
        /\ \A t \in Writers :
             /\ (pc[t] = "log_op" /\ pc'[t] = "logged") =>
                    wal' = Append(wal, [line |-> LineOf(call[t]), synced |-> TRUE])
             /\ (pc[t] = "logged" /\ pc'[t] = "done") => ret'[t].err = "nil"
             /\ (pc[t] = "Locked" /\ pc'[t] = "done") => ret'[t].err = ErrNotFound
             /\ (pc[t] = "Locked" /\ call[t].op = "DELETE" /\ pc'[t] # pc[t]) => pc'[t] = "log_op"
        /\ \A r \in Readers : (pc'[r] # pc[r] \/ kv'[r] # kv[r]) => wal' = wal
      ]_vars

\* C16 witness: a Delete of a key the map never held has returned nil and
\* its record stands at the end of the WAL, after an earlier record
C16_Witness ==
    \E w \in Writers :
        /\ pc[w] = "done"
        /\ ret[w].err = "nil"
        /\ Len(applied) >= 1
        /\ applied[Len(applied)].op = "DELETE"
        /\ \A i \in 1..(Len(applied) - 1) : applied[i].key # applied[Len(applied)].key
        /\ Len(wal) >= 2
        /\ wal[Len(wal)] = [line |-> LineOf(applied[Len(applied)]), synced |-> TRUE]

\* C17: a successful Set(k, ttl, v) leaves k with payload v and with no
\* expiry if ttl = 0, whatever expiry it had, and with expires_at = the
\* instant of the map update + ttl otherwise; a successful Expire(k, ttl)
\* leaves k with its payload and expires_at = that instant + ttl; no other
\* key changes.
C17_SetAndExpireReplaceExpiry ==
    [][ \A t \in Writers :
          (pc[t] = "logged" /\ pc'[t] = "done") =>
              /\ call[t].op = "SET" =>
                    data'[call[t].key] =
                        [data |-> call[t].value,
                         expires_at |-> IF call[t].ttl = 0 THEN ZeroTime ELSE now + call[t].ttl]
              /\ call[t].op = "EXPIRE" =>
                    data'[call[t].key] =
                        [data |-> data[call[t].key].data, expires_at |-> now + call[t].ttl]
              /\ call[t].op \in {"SET", "EXPIRE"} => DOMAIN data' = DOMAIN data \cup {call[t].key}
              /\ \A k \in DOMAIN data \ {call[t].key} : k \in DOMAIN data' /\ data'[k] = data[k]
      ]_vars

\* C17 witness: a key stored with a ttl has been stored again with ttl 0 and
\* now has no expiry
C17_Witness ==
    /\ Len(applied) = 2
    /\ applied[1].op = "SET" /\ applied[1].ttl > 0
    /\ applied[2].op = "SET" /\ applied[2].ttl = 0
    /\ applied[2].key = applied[1].key
    /\ data[applied[2].key].expires_at = ZeroTime
    /\ \E t \in Writers : pc[t] = "done" /\ ret[t].err = "nil"

\* the child's answer to the last pull a Next call has made
LastPulled == ChildNext(script, child_pos' - 1)
ChildFailed == child_pos' > child_pos /\ LastPulled.err # "nil"

\* C18: when the child's Next returns an error, Filter.Next, Limit.Next and
\* Project.Next (KeyOnly set or not) return that error, whatever row came
\* with it, and Limit's counter stays as it was.
C18_ChildErrorReturned ==
    [][ ChildFailed => trace'[Len(trace')].err = LastPulled.err /\ count' = count ]_vars

\* what the operators do instead: the same, except for Project with KeyOnly
\* when the child returns a row together with the error
C18_ChildErrorReturnedInCode ==
    [][ (ChildFailed /\ ~(op_tree.op = "Project" /\ op_tree.KeyOnly /\ LastPulled.row # NilRow)) =>
            trace'[Len(trace')].err = LastPulled.err /\ count' = count ]_vars

\* C19: a tree of Filter, Limit and Project over one KVScan takes one shared
\* lease on the map lock in Open, keeps it over every Next, and gives it back
\* in Close, however many Next calls were made; the thread holds a lease
\* exactly while its tree is open, and after Close nothing of the tree stands
\* in the way of a writer waiting in Lock.
C19_TreeLease ==
    [][ \A r \in Readers :
          /\ (pc[r] = "RLock" /\ pc'[r] = "scan") => r \notin readers /\ readers' = readers \cup {r}
          /\ (pc[r] = "scan" /\ pc'[r] = "scan") => readers' = readers
          /\ (pc[r] = "scan" /\ pc'[r] # "scan") =>
                /\ r \in readers
                /\ readers' = readers \ {r}
                /\ \A w \in Writers : pc'[w] = "Drain" => readers' = {}
          /\ r \in readers' <=> pc'[r] = "scan"
      ]_vars

\* C19 witness: a tree of MaxDepth operators has been closed after Next
\* calls that did not reach end-of-stream, no lease is left, and the writer
\* that waited in Lock can go on
C19_Witness ==
    \E r \in Readers, w \in Writers :
        /\ pc[r] = "idle"
        /\ Len(tree) = MaxDepth
        /\ Len(trace) >= 1
        /\ \A i \in 1..Len(trace) : IsRowAnswer(trace[i])
        /\ readers = {}
        /\ pc[w] = "Drain"
        /\ ENABLED LockAcquired(w)

\* C20: a Next of a KVScan that has keys left returns the row of the next
\* captured key with the payload and the expires_at the map held for it at
\* Open, whether or not that expires_at has passed in the meantime; Next
\* never passes over a captured key.
C20_RowsCarryOpenValue ==
    [][ \A r \in Readers :
          (pc[r] = "scan" /\ pc'[r] = "scan") =>
              /\ kv'[r].keys = kv[r].keys
              /\ kv'[r].pos \in {kv[r].pos, kv[r].pos + 1}
              /\ kv'[r].pos = kv[r].pos + 1 =>
                    LET k == kv[r].keys[kv[r].pos + 1]
                    IN /\ k \in DOMAIN opened[r].data
                       /\ ret'[r] = [err |-> "nil", found |-> TRUE, key |-> k,
                                     value |-> opened[r].data[k].data,
                                     expires_at |-> opened[r].data[k].expires_at]
      ]_vars

\* C20 witness: a scan has returned the row of a key that was live at Open
\* and whose expires_at, carried by the row, has passed since
C20_Witness ==
    \E r \in Readers :
        /\ pc[r] = "scan"
        /\ Len(emitted[r]) > 0
        /\ ret[r].found
        /\ ret[r].key = emitted[r][Len(emitted[r])]
        /\ ret[r].expires_at # ZeroTime
        /\ opened[r].now < ret[r].expires_at
        /\ now > ret[r].expires_at

\* C21: at any instant and for any map, KVScan.Open captures a key exactly
\* when Store.Get on that key at that instant reports found, the instant
\* equal to expires_at included.
C21_OpenAgreesWithGet ==
    \A k \in Keys : k \in ScanLive(data, now) <=> GetResult(data, k, now).found

\* what the two tests do instead: they agree at every instant but expires_at
\* itself, where Get still finds the key and Open passes over it
C21_AgreeOffBoundary ==
    \A k \in Keys :
        /\ k \in ScanLive(data, now) => GetResult(data, k, now).found
        /\ (GetResult(data, k, now).found /\ k \notin ScanLive(data, now)) =>
               data[k].expires_at = now

\* C22: every Set, Delete or Expire call that has reached Lock returns, when
\* scans are closed and WAL I/O completes; no reader is admitted while a
\* writer waits for or holds the map lock; and the WAL lock is only ever held
\* by the thread that holds the map lock exclusively, inside log_op.
C22_MutationsReturn ==
    /\ \A t \in Mutators : (pc[t] = "Lock") ~> (pc[t] = "done")
    /\ [][writer # NoThread => readers' \subseteq readers]_vars
    /\ [](wal_lock # NoThread =>
            /\ writer = wal_lock
            /\ readers = {}
            /\ pc[wal_lock] = "log_op")

\* C22 witness: a mutation has returned after it waited in Lock for an open
\* scan to be closed while the other writer waited behind it
C22_Witness ==
    \E t \in Mutators, u \in Mutators, r \in Readers :
        /\ t # u
        /\ pc[t] = "done"
        /\ pc[u] = "Lock"
        /\ pc[r] = "RLock"

\* the answers a tree has given since its Open; a tree with no operator is
\* the KVScan alone
NoLimitInTree == \A i \in 1..Len(tree) : tree[i].op \in {"Filter", "Project"}

\* C23: once Next of an opened KVScan, or of a tree of Filter and Project
\* operators over it, has returned end-of-stream, every later Next before
\* Close returns end-of-stream too, with no row and no error; and the KVScan
\* alone returns a row in each of its first Len(keys) calls and end-of-stream
\* from call Len(keys) + 1 on.
C23_EndOfStreamIsFinal ==
    \A r \in Readers :
        (pc[r] = "scan" /\ NoLimitInTree) =>
            /\ \A i, j \in 1..Len(trace) :
                  (i < j /\ trace[i] = EndOfStream) => trace[j] = EndOfStream
            /\ Len(tree) = 0 =>
                  \A i \in 1..Len(trace) :
                      /\ trace[i] = EndOfStream <=> i > Len(kv[r].keys)
                      /\ i <= Len(kv[r].keys) =>
                            IsRowAnswer(trace[i]) /\ trace[i].row.Key = kv[r].keys[i]

\* C23 witness: a Project over a Filter over a KVScan of two keys has given
\* a row, skipped the other key, and answered end-of-stream twice
C23_Witness ==
    \E r \in Readers :
        /\ pc[r] = "scan"
        /\ Len(tree) = 2
        /\ NoLimitInTree
        /\ \E i \in 1..2 : tree[i].op = "Filter"
        /\ Len(kv[r].keys) = 2
        /\ Len(trace) = 3
        /\ IsRowAnswer(trace[1])
        /\ trace[2] = EndOfStream
        /\ trace[3] = EndOfStream

\* C24: in the first iteration, a Get that found its key expired removes
\* only the entry it found: whatever a Set of that key stored before the Get
\* took the lock exclusively is still in the map afterwards.
C24_GetRemovesOnlyExpired ==
    [][ \A r \in Readers :
          (pc[r] = "Drain" /\ pc'[r] = "RLock again") =>
              \A k \in DOMAIN data \ DOMAIN data' : data[k] = call[r].val
      ]_vars

\* what the first iteration's Get does keep to: it removes no key but its
\* own, it holds no lease and no exclusive lock once it has returned or while
\* it waits for a lock, and only while it reads or returns does it hold a
\* lease
C24_LocksReleasedInCode ==
    \A r \in Readers :
        /\ pc[r] \in {"idle", "done", "RLock", "Lock", "RLock again"} =>
              r \notin readers /\ writer # r
        /\ pc[r] \in {"read", "return"} => r \in readers /\ writer # r
        /\ pc[r] = "Drain" => writer = r /\ r \notin readers

TypeOK ==
    /\ DOMAIN data \subseteq Keys
    /\ now \in StartTime..MaxTime
    /\ writer \in Threads \cup {NoThread}
    /\ readers \subseteq Threads
====
